---- MODULE Spec2Model ----
(***************************************************************************)
(* Scrape-and-checkpoint core of public_data_digger_scraper.py: the batch  *)
(* drivers main_search / main_details, the task runners scrape_by_name /   *)
(* scrape_details with their on-disk checkpoint, the cooperative           *)
(* termination flag, and the aggregator load_search_results.               *)
(*                                                                         *)
(* Text is a sequence of one-character strings.  A file key is a record    *)
(* [store, dir, name]; the html tree and the json tree of a store are the  *)
(* two variables html and json.                                            *)
(*                                                                         *)
(* Two smaller machines follow the scraper: the result loop of             *)
(* datadigger_by_name inside one scrape_by_name task, block by block, and  *)
(* scraping() of scrape_kickstarter.py.                                    *)
(***************************************************************************)
EXTENDS Integers, Sequences, FiniteSets, TLC

\* ------------------------------------------------------------- bounds --
MaxLen == 2          \* rows in an input table / lines in a URL list
MaxBlocks == 1       \* result blocks (or registration sections) on a page
RaceLen == 1         \* rows / lines of the input two concurrent processes share

MaxSections == 2     \* entries of the sections argument of scraping()
MaxCards == 2        \* project cards on one Kickstarter listing page
MaxDups == 1         \* cards that repeat a project already downloaded
MaxProjects == 102   \* cards an unlimited scraping() run is followed through

MAX_RESULTS_ON_SEARCH_PAGE == 10000

\* limit = 100 if '--test' in sys.argv else 0
TestLimit == 100

Min(a, b) == IF a < b THEN a ELSE b

\* --------------------------------------------------------------- text --
Space == " "

IsSpace(c) == c = Space

\* str.lower on the characters of the model's alphabet
Lower(c) == IF c = "J" THEN "j" ELSE c

\* \w of the re module: letters, digits and the underscore
IsWord(c) == c \in {"J", "j", "o", "b", "c", "d", "p", "s", "_"}

RECURSIVE LStrip(_)
LStrip(s) == IF s # <<>> /\ IsSpace(Head(s)) THEN LStrip(Tail(s)) ELSE s

RECURSIVE RStrip(_)
RStrip(s) ==
    IF s # <<>> /\ IsSpace(s[Len(s)]) THEN RStrip(SubSeq(s, 1, Len(s) - 1)) ELSE s

\* str.strip
Strip(s) == RStrip(LStrip(s))

\* re.sub(r'[\W]', '_', name.lower().strip())
NormName(s) ==
    LET t == Strip([i \in 1..Len(s) |-> Lower(s[i])])
    IN  [i \in 1..Len(t) |-> IF IsWord(t[i]) THEN t[i] ELSE "_"]

\* '_'.join(parts)
RECURSIVE JoinUnderscore(_)
JoinUnderscore(parts) ==
    IF parts = <<>> THEN <<>>
    ELSE IF Len(parts) = 1 THEN parts[1]
    ELSE parts[1] \o <<"_">> \o JoinUnderscore(Tail(parts))

\* ------------------------------------------------------------- inputs --
\* A cell of final_race.csv: <<>> is an empty cell (read as NaN).
NaN == <<>>

Row(f, l) == [f_name |-> f, l_name |-> l]

\* Rows of the name table.  "o'" and "o-" are different queries with the
\* same normalised last name.
SearchRows ==
    { Row(<<"J">>, <<"o", "'">>), Row(<<"J">>, <<"o", "-">>),
      Row(<<"b", " ">>, <<"o", "'">>),
      Row(<<" ">>, <<"o", "'">>), Row(NaN, <<"o", "'">>) }

\* Lines of the URL list, each the path of the URL split at '/', without
\* the empty part before the leading slash; <<>> is a blank line.
UrlLines ==
    { << <<"p">>, <<"s">>, <<"c">>, <<"d">> >>,
      << <<"p">>, <<"s">>, <<"c", "_", "d">> >>,
      <<>> }

ListsOf(S) == UNION { [1..n -> S] : n \in 0..MaxLen }

\* pandas dropna(subset=['f_name', 'l_name'])
DropNa(rows) == SelectSeq(rows, LAMBDA r : r.f_name # NaN /\ r.l_name # NaN)

\* list(filter(lambda u: len(u)>0, map(str.strip, lines)))
NonBlank(lines) == SelectSeq(lines, LAMBDA u : Len(u) > 0)

\* -------------------------------------------------------------- pages --
\* What requests.get can return: status, number of result blocks (search)
\* or of Voter Registration sections (details), and whether the markup the
\* parser dereferences is all there.
Pages ==
    { [status |-> 404, blocks |-> 0, ok |-> TRUE] }
    \cup { [status |-> 200, blocks |-> b, ok |-> TRUE] : b \in 0..MaxBlocks }
    \cup { [status |-> 200, blocks |-> 1, ok |-> FALSE] }

NoPage == [status |-> -1, blocks |-> 0, ok |-> FALSE]

Result(n) == [raised |-> FALSE, n |-> n]

Raise == [raised |-> TRUE, n |-> 0]

\* The search-results parser: the number of records it returns, or the
\* exception of result_body.find_previous_sibling('h4').find('a') on a block
\* without the link.
datadigger_by_name(pg) ==
    IF pg.status = 200
    THEN IF pg.blocks > 0 /\ ~pg.ok
         THEN Raise
         ELSE Result(Min(pg.blocks, MAX_RESULTS_ON_SEARCH_PAGE + 1))
    ELSE Result(0)

\* The detail-page parser: 1 for the attribute dictionary with its two keys,
\* 0 for the empty dictionary of a page that is not a 200, or the exception
\* of [...][0] without the 'Additional Information' header and of
\* search_dates(...)[0] on a section header without a date.
datadigger_detail_page(pg) ==
    IF pg.status = 200
    THEN IF ~pg.ok THEN Raise ELSE Result(1)
    ELSE Result(0)

Parse(m, pg) ==
    IF m = "search" THEN datadigger_by_name(pg) ELSE datadigger_detail_page(pg)

\* --------------------------------------------------------------- keys --
\* scrape_by_name: <root>/<kind>/<output_lname>/<output_fname>.<kind>
NameKey(fname, lname) ==
    [store |-> "search", dir |-> << NormName(lname) >>, name |-> NormName(fname)]

\* scrape_details: <root>/<kind>/<parts[1]>/<parts[2]>/<'_'.join(parts[3:])>.<kind>
UrlKey(parts) ==
    [store |-> "details",
     dir   |-> SubSeq(parts, 1, Min(2, Len(parts))),
     name  |-> JoinUnderscore(SubSeq(parts, 3, Len(parts)))]

\* The directories os.makedirs creates for the html and the json file of a key
DirsOf(k) ==
    { [store |-> k.store, kind |-> kd, dir |-> SubSeq(k.dir, 1, n)] :
        kd \in {"html", "json"}, n \in 0..Len(k.dir) }

\* ------------------------------------------------------------ state ----
VARIABLES
    names_csv,      \* disk: the rows of final_race.csv
    url_list,       \* disk: the lines of the URL list file
    procs,          \* the scraper processes of this run of the system
    pc,             \* per process: where it is
    mode,           \* per process: "search" or "details"
    input,          \* per process: names_df / details_list
    idx,            \* per process: position of the batch loop (1-based)
    terminate_now,  \* per process: GracefulTerminate.terminate_now
    page,           \* per process: response held between fetch and write
    log,            \* per process: {<<level, what, idx>>}, warnings and up
    html,           \* disk: key -> page stored as <key>.html
    json,           \* disk: key -> number of lines of <key>.json
    dirs,           \* disk: directories under the two store roots
    killFile,       \* disk: TERMINATE.NOW exists
    table,          \* result of the last load_search_results
    entry,          \* history, per process: disk state at the task runner call
    effects,        \* history, per process: what the current call has done
    opens,          \* history: key x kind -> times opened for writing
    returned,       \* history: tasks whose latest runner call returned
    raised,         \* history: tasks whose latest runner call raised
    attempted,      \* history, per process: indexes handed to the task runner
    sig,            \* history, per process: loop position at the first signal
    failed,         \* history: <<mode, index>> of the items whose parse raised
                    \*   and that no later run has reached yet
    open            \* history: failed, less the items whose key another list
                    \*   item has written since

\* One scrape_by_name task with the result loop of datadigger_by_name
VARIABLES
    resp,           \* the response of requests.get: status, result blocks
    enum_j,         \* j: the index enumerate() has reached
    block,          \* the result block the loop body was last entered with
    results,        \* len(results)
    errors,         \* what logging.error was called for inside the parser
    written,        \* which of the task's two files have been written
    ppc             \* where the task is

pvars == << resp, enum_j, block, results, errors, written, ppc >>

\* scraping() of scrape_kickstarter.py
VARIABLES
    limit,          \* the limit argument
    any_state,      \* the global any_state
    sections,       \* the sections argument
    sect,           \* index of the section the outer loop is at
    st,             \* index into stloop
    cards,          \* project cards of the current page not yet handled
    project_counter,
    data_json,      \* number of distinct <category>/<pid>/data.json files
    scraped,        \* n: the count scraping() returned
    kpc             \* where scraping() is

kvars == << limit, any_state, sections, sect, st, cards, project_counter,
            data_json, scraped, kpc >>

\* The scraper's own variables
svars == << names_csv, url_list, procs, pc, mode, input, idx, terminate_now, page, log, html, json,
            dirs, killFile, table, entry, effects, opens, returned, raised,
            attempted, sig, failed, open >>

vars == << svars, pvars, kvars >>

NoBlock == [link |-> FALSE, born |-> "-", updated |-> "-"]

\* No task is being followed block by block.
ParseIdle ==
    /\ resp = [status |-> 404, blocks |-> 0]
    /\ enum_j = 0
    /\ block = NoBlock
    /\ results = 0
    /\ errors = {}
    /\ written = {}
    /\ ppc = "idle"

\* scrape_kickstarter.py is not running.
KickIdle ==
    /\ limit = 0
    /\ any_state = TRUE
    /\ sections = <<>>
    /\ sect = 1
    /\ st = 1
    /\ cards = 0
    /\ project_counter = 0
    /\ data_json = 0
    /\ scraped = 0
    /\ kpc = "idle"

Procs == {1, 2}

NoFiles == [k \in {} |-> 0]

NoEntry == [html |-> FALSE, json |-> FALSE, kill |-> FALSE, again |-> "first",
            retry |-> FALSE, open |-> FALSE]

NoSignal == [seen |-> FALSE, idx |-> 0, pc |-> "none"]

NoTable == [loaded |-> FALSE, error |-> FALSE, rows |-> 0, number_of_files |-> 0]

\* No process has started and both stores are empty.
Fresh ==
    /\ pc = [p \in Procs |-> "idle"]
    /\ mode = [p \in Procs |-> "none"]
    /\ input = [p \in Procs |-> <<>>]
    /\ idx = [p \in Procs |-> 1]
    /\ terminate_now = [p \in Procs |-> FALSE]
    /\ page = [p \in Procs |-> NoPage]
    /\ log = [p \in Procs |-> {}]
    /\ html = NoFiles
    /\ json = NoFiles
    /\ dirs = {}
    /\ killFile = FALSE
    /\ table = NoTable
    /\ entry = [p \in Procs |-> NoEntry]
    /\ effects = [p \in Procs |-> {}]
    /\ opens = NoFiles
    /\ returned = {}
    /\ raised = {}
    /\ attempted = [p \in Procs |-> {}]
    /\ sig = [p \in Procs |-> NoSignal]
    /\ failed = {}
    /\ open = {}

\* No scraper process is running and its input files are empty.
ScraperIdle ==
    /\ names_csv = <<>>
    /\ url_list = <<>>
    /\ procs = {1}
    /\ Fresh

\* The two modes work on disjoint directory trees; a behaviour follows the
\* runs over one input file, the other file being empty.
Init ==
    /\ \/ names_csv \in ListsOf(SearchRows) /\ url_list = <<>>
       \/ names_csv = <<>> /\ url_list \in ListsOf(UrlLines)
    /\ procs = {1}
    /\ Fresh
    /\ ParseIdle
    /\ KickIdle

\* ------------------------------------------------- the current item ----
\* main_search: the row's names, stripped, '' for a cell that is no string
Stripped(row) == Row(Strip(row.f_name), Strip(row.l_name))

\* if len(l_name)>0 and len(f_name)>0  /  if len(detail_url)>0
Valid(m, item) ==
    IF m = "search"
    THEN Len(Stripped(item).l_name) > 0 /\ Len(Stripped(item).f_name) > 0
    ELSE Len(item) > 0

\* The arguments the batch loop passes to the task runner
Args(m, item) == IF m = "search" THEN Stripped(item) ELSE item

KeyOf(m, item) ==
    IF m = "search"
    THEN NameKey(Args(m, item).f_name, Args(m, item).l_name)
    ELSE UrlKey(item)

Item(p) == input[p][idx[p]]
Key(p) == KeyOf(mode[p], Item(p))
Task(p) == << mode[p], Args(mode[p], Item(p)) >>

InTask == {"gate", "sleep", "fetch", "write_html", "results"}

\* Variants of the gate: one that asks for both artifacts, one that asks
\* for the JSON artifact, one that lets every call through.
Completed_Both(k) == k \in DOMAIN html /\ k \in DOMAIN json

Completed_Json(k) == k \in DOMAIN json

Completed_Off(k) == FALSE

\* os.path.isfile(html_name): the checkpoint gate of both task runners
Completed(k) == k \in DOMAIN html

\* Variant: a loop that never looks at the flag.
ShouldBreak_Never(p) == FALSE

\* The batch loop's  if terminate.terminate_now: break
ShouldBreak(p) == terminate_now[p]

\* Variant: a handler placed around the loop instead of inside it.
AfterException_Abort == "finished"

\* except Exception as ex: logging.error(...)  -- the loop goes on
AfterException == "head"

\* ------------------------------------------------------ batch driver ----
\* A run of the program in mode m over the list new: the prelude of
\* main_search / main_details up to terminate = GracefulTerminate().
Start(p, m, new) ==
    /\ pc[p] = "idle"
    /\ mode' = [mode EXCEPT ![p] = m]
    /\ input' = [input EXCEPT ![p] = new]
    /\ idx' = [idx EXCEPT ![p] = 1]
    /\ terminate_now' = [terminate_now EXCEPT ![p] = FALSE]
    /\ pc' = [pc EXCEPT ![p] = "head"]
    /\ table' = NoTable    \* the table of an earlier update is not kept
    /\ UNCHANGED << pvars, kvars, names_csv, url_list, procs, page, log, html, json, dirs,
                    killFile, entry, effects, opens, returned, raised, attempted,
                    sig, failed, open >>

main_search(p) == Start(p, "search", DropNa(names_csv))

main_details(p) == Start(p, "details", NonBlank(url_list))

\* main_* has returned and the process ends; its memory is gone.
ProcessExit(p) ==
    /\ pc[p] = "finished"
    /\ pc' = [pc EXCEPT ![p] = "idle"]
    /\ mode' = [mode EXCEPT ![p] = "none"]
    /\ input' = [input EXCEPT ![p] = <<>>]
    /\ idx' = [idx EXCEPT ![p] = 1]
    /\ terminate_now' = [terminate_now EXCEPT ![p] = FALSE]
    /\ page' = [page EXCEPT ![p] = NoPage]
    /\ log' = [log EXCEPT ![p] = {}]
    /\ entry' = [entry EXCEPT ![p] = NoEntry]
    /\ effects' = [effects EXCEPT ![p] = {}]
    /\ attempted' = [attempted EXCEPT ![p] = {}]
    /\ sig' = [sig EXCEPT ![p] = NoSignal]
    /\ UNCHANGED << pvars, kvars, names_csv, url_list, procs, html, json, dirs, killFile, table,
                    opens, returned, raised, failed, open >>

\* The loop sees the flag set and breaks.
LoopBreak(p) ==
    /\ pc[p] = "head"
    /\ ShouldBreak(p)
    /\ pc' = [pc EXCEPT ![p] = "finished"]
    /\ UNCHANGED << pvars, kvars, names_csv, url_list, procs, mode, input, idx, terminate_now, page, log, html, json,
                    dirs, killFile, table, entry, effects, opens, returned,
                    raised, attempted, sig, failed, open >>

\* The list is exhausted.
LoopEnd(p) ==
    /\ pc[p] = "head"
    /\ ~ShouldBreak(p)
    /\ idx[p] > Len(input[p])
    /\ pc' = [pc EXCEPT ![p] = "finished"]
    /\ UNCHANGED << pvars, kvars, names_csv, url_list, procs, mode, input, idx, terminate_now, page, log, html, json,
                    dirs, killFile, table, entry, effects, opens, returned,
                    raised, attempted, sig, failed, open >>

\* A row with a blank name: a warning, and on to the next row.  In
\* main_details the branch would raise NameError (row is not defined there)
\* outside the try, ending the process; NonBlank keeps it from being taken.
InvalidRecord(p) ==
    /\ pc[p] = "head"
    /\ ~ShouldBreak(p)
    /\ idx[p] <= Len(input[p])
    /\ ~Valid(mode[p], Item(p))
    /\ IF mode[p] = "search"
       THEN /\ log' = [log EXCEPT ![p] = @ \cup {<<"warning", "invalid", idx[p]>>}]
            /\ idx' = [idx EXCEPT ![p] = @ + 1]
            /\ pc' = pc
       ELSE /\ pc' = [pc EXCEPT ![p] = "crashed"]
            /\ UNCHANGED << log, idx >>
    /\ UNCHANGED << pvars, kvars, names_csv, url_list, procs, mode, input, terminate_now, page, html, json, dirs,
                    killFile, table, entry, effects, opens, returned, raised,
                    attempted, sig, failed, open >>

\* scrape_by_name(f_name, l_name) / scrape_details(detail_url) is called.
Call(p) ==
    /\ pc[p] = "head"
    /\ ~ShouldBreak(p)
    /\ idx[p] <= Len(input[p])
    /\ Valid(mode[p], Item(p))
    /\ pc' = [pc EXCEPT ![p] = "gate"]
    /\ attempted' = [attempted EXCEPT ![p] = @ \cup {idx[p]}]
    /\ entry' = [entry EXCEPT ![p] =
                   [html  |-> Key(p) \in DOMAIN html,
                    json  |-> Key(p) \in DOMAIN json,
                    kill  |-> killFile,
                    again |-> IF Task(p) \in returned THEN "returned"
                              ELSE IF Task(p) \in raised THEN "raised"
                              ELSE "first",
                    retry |-> <<mode[p], idx[p]>> \in failed,
                    open  |-> <<mode[p], idx[p]>> \in open]]
    /\ effects' = [effects EXCEPT ![p] = {}]
    /\ failed' = failed \ {<<mode[p], idx[p]>>}
    /\ open' = open \ {<<mode[p], idx[p]>>}
    /\ UNCHANGED << pvars, kvars, names_csv, url_list, procs, mode, input, idx, terminate_now, page, log, html, json,
                    dirs, killFile, table, opens, returned, raised, sig >>

\* ------------------------------------------------------- task runner ----
\* The task runner returns to the loop, which moves to the next item.
Return(p) ==
    /\ pc' = [pc EXCEPT ![p] = "head"]
    /\ idx' = [idx EXCEPT ![p] = @ + 1]
    /\ returned' = returned \cup {Task(p)}
    /\ raised' = raised \ {Task(p)}

\* The task runner raises kind; the loop's except clause logs it.
Throw(p, kind) ==
    /\ pc' = [pc EXCEPT ![p] = AfterException]
    /\ idx' = [idx EXCEPT ![p] = @ + 1]
    /\ log' = [log EXCEPT ![p] = @ \cup {<<"error", kind, idx[p]>>}]
    /\ raised' = raised \cup {Task(p)}
    /\ returned' = returned \ {Task(p)}

\* if os.path.isfile(html_name): return
SkipExisting(p) ==
    /\ pc[p] = "gate"
    /\ Completed(Key(p))
    /\ Return(p)
    /\ UNCHANGED << pvars, kvars, names_csv, url_list, procs, mode, input, terminate_now, page, log, html, json, dirs,
                    killFile, table, entry, effects, opens, attempted, sig,
                    failed, open >>

\* for pth in [output_path, html_path]: if not os.path.isdir(pth): os.makedirs(pth)
MakeDirs(p) ==
    /\ pc[p] = "gate"
    /\ ~Completed(Key(p))
    /\ dirs' = dirs \cup DirsOf(Key(p))
    /\ effects' = [effects EXCEPT ![p] =
                     IF DirsOf(Key(p)) \subseteq dirs THEN @ ELSE @ \cup {"mkdir"}]
    /\ pc' = [pc EXCEPT ![p] = "sleep"]
    /\ UNCHANGED << pvars, kvars, names_csv, url_list, procs, mode, input, idx, terminate_now, page, log, html, json,
                    killFile, table, entry, opens, returned, raised, attempted,
                    sig, failed, open >>

\* time.sleep(random.randint(*sleep_time))
Sleep(p) ==
    /\ pc[p] = "sleep"
    /\ effects' = [effects EXCEPT ![p] = @ \cup {"sleep"}]
    /\ pc' = [pc EXCEPT ![p] = "fetch"]
    /\ UNCHANGED << pvars, kvars, names_csv, url_list, procs, mode, input, idx, terminate_now, page, log, html, json,
                    dirs, killFile, table, entry, opens, returned, raised,
                    attempted, sig, failed, open >>

\* requests.get raises (no connection, ...).
FetchFails(p) ==
    /\ pc[p] = "fetch"
    /\ effects' = [effects EXCEPT ![p] = @ \cup {"get", "network_raised"}]
    /\ Throw(p, "network")
    /\ UNCHANGED << pvars, kvars, names_csv, url_list, procs, mode, input, terminate_now, page, html, json, dirs,
                    killFile, table, entry, opens, attempted, sig, failed, open >>

\* Variant: the raw page is written before it is parsed.
ParseRaises_AfterWrite(p) ==
    /\ pc[p] = "fetch"
    /\ \E pg \in Pages :
         /\ Parse(mode[p], pg).raised
         /\ html' = (Key(p) :> pg) @@ html
    /\ effects' = [effects EXCEPT ![p] = @ \cup {"get", "parse_raised"}]
    /\ Throw(p, "parse")
    /\ failed' = failed \cup {<<mode[p], idx[p]>>}
    /\ open' = open \cup {<<mode[p], idx[p]>>}
    /\ UNCHANGED << pvars, kvars, names_csv, url_list, procs, mode, input, terminate_now, page,
                    json, dirs, killFile, table, entry, opens, attempted, sig >>

\* requests.get returns a page on which the parser raises.
ParseRaises(p) ==
    /\ pc[p] = "fetch"
    /\ \E pg \in Pages : Parse(mode[p], pg).raised
    /\ effects' = [effects EXCEPT ![p] = @ \cup {"get", "parse_raised"}]
    /\ Throw(p, "parse")
    /\ failed' = failed \cup {<<mode[p], idx[p]>>}
    /\ open' = open \cup {<<mode[p], idx[p]>>}
    /\ UNCHANGED << pvars, kvars, names_csv, url_list, procs, mode, input, terminate_now, page,
                    html, json, dirs, killFile, table, entry, opens, attempted,
                    sig >>

\* requests.get returns a page which the parser takes.
Fetched(p) ==
    /\ pc[p] = "fetch"
    /\ \E pg \in Pages :
         /\ ~Parse(mode[p], pg).raised
         /\ page' = [page EXCEPT ![p] = pg]
    /\ effects' = [effects EXCEPT ![p] = @ \cup {"get"}]
    /\ pc' = [pc EXCEPT ![p] = "write_html"]
    /\ UNCHANGED << pvars, kvars, names_csv, url_list, procs, mode, input, idx, terminate_now, log, html, json, dirs,
                    killFile, table, entry, opens, returned, raised, attempted,
                    sig, failed, open >>

Bump(f, x) == (x :> (IF x \in DOMAIN f THEN f[x] + 1 ELSE 1)) @@ f

\* with open(html_name, "w") as html_io: html_io.write(html)
WriteHtml(p) ==
    /\ pc[p] = "write_html"
    /\ html' = (Key(p) :> page[p]) @@ html
    /\ opens' = Bump(opens, <<Key(p), "html">>)
    /\ effects' = [effects EXCEPT ![p] = @ \cup {"write_html"}]
    /\ open' = { t \in open : t[1] # mode[p]
                                \/ KeyOf(mode[p], input[p][t[2]]) # Key(p) }
    /\ pc' = [pc EXCEPT ![p] = "results"]
    /\ UNCHANGED << pvars, kvars, names_csv, url_list, procs, mode, input, idx, terminate_now, page, log, json, dirs,
                    killFile, table, entry, returned, raised, attempted, sig,
                    failed >>

\* if len(results)>0: with open(output_name, "w") as json_io: one line a record
WriteJson(p) ==
    /\ pc[p] = "results"
    /\ Parse(mode[p], page[p]).n > 0
    /\ json' = (Key(p) :> Parse(mode[p], page[p]).n) @@ json
    /\ opens' = Bump(opens, <<Key(p), "json">>)
    /\ effects' = [effects EXCEPT ![p] = @ \cup {"write_json"}]
    /\ Return(p)
    /\ UNCHANGED << pvars, kvars, names_csv, url_list, procs, mode, input, terminate_now, page, log, html, dirs,
                    killFile, table, entry, attempted, sig, failed, open >>

\* else: logging.warning("No records for ...")
NoRecords(p) ==
    /\ pc[p] = "results"
    /\ Parse(mode[p], page[p]).n = 0
    /\ log' = [log EXCEPT ![p] = @ \cup {<<"warning", "no records", idx[p]>>}]
    /\ Return(p)
    /\ UNCHANGED << pvars, kvars, names_csv, url_list, procs, mode, input, terminate_now, page, html, json, dirs,
                    killFile, table, entry, effects, opens, attempted, sig,
                    failed, open >>

\* ------------------------------------------------------- termination ----
\* GracefulTerminate.exit_gracefully: SIGINT or SIGTERM reaches the process.
exit_gracefully(p) ==
    /\ pc[p] \in InTask \cup {"head"}
    /\ terminate_now' = [terminate_now EXCEPT ![p] = TRUE]
    /\ sig' = [sig EXCEPT ![p] =
                  IF @.seen THEN @
                  ELSE [seen |-> TRUE, pc |-> pc[p],
                        idx  |-> IF pc[p] = "head" THEN idx[p] - 1 ELSE idx[p]]]
    /\ UNCHANGED << pvars, kvars, names_csv, url_list, procs, pc, mode, input, idx, page, log, html, json, dirs,
                    killFile, table, entry, effects, opens, returned, raised,
                    attempted, failed, open >>

\* What a call of check_for_termination would do.  No statement of the
\* program calls it.
check_for_termination == IF killFile THEN "exit" ELSE "return"

\* The operator puts TERMINATE.NOW into the working directory.
TouchTerminateNow ==
    /\ ~killFile
    /\ killFile' = TRUE
    /\ UNCHANGED << pvars, kvars, names_csv, url_list, procs, pc, mode, input, idx, terminate_now, page, log, html,
                    json, dirs, table, entry, effects, opens, returned, raised,
                    attempted, sig, failed, open >>

\* --------------------------------------------------------- aggregator ----
RECURSIVE Lines(_)
Lines(files) ==
    IF files = {} THEN 0
    ELSE LET k == CHOOSE x \in files : TRUE IN json[k] + Lines(files \ {k})

JsonRoot == [store |-> "search", kind |-> "json", dir |-> <<>>]

\* os.listdir of the json root, then of each directory in it; every file
\* the task runner puts there ends in '.json'.
load_search_results ==
    IF JsonRoot \notin dirs
    THEN [loaded |-> TRUE, error |-> TRUE, rows |-> 0, number_of_files |-> 0]
    ELSE LET lasts == { d \in dirs : d.store = "search" /\ d.kind = "json"
                                      /\ Len(d.dir) = 1 }
             files == { k \in DOMAIN json :
                          \E d \in lasts : k.store = "search" /\ k.dir = d.dir }
         IN  [loaded |-> TRUE, error |-> FALSE, rows |-> Lines(files),
              number_of_files |-> Cardinality(files)]

\* ./public_data_digger_scaper.py update, run while no scraper runs
main_process_data ==
    /\ \A p \in procs : pc[p] = "idle"
    /\ ~table.loaded
    /\ table' = load_search_results
    /\ UNCHANGED << pvars, kvars, names_csv, url_list, procs, pc, mode, input, idx, terminate_now, page, log, html,
                    json, dirs, killFile, entry, effects, opens, returned, raised,
                    attempted, sig, failed, open >>

Next ==
    \/ \E p \in procs : main_search(p)
    \/ \E p \in procs : main_details(p)
    \/ \E p \in procs : ProcessExit(p)
    \/ \E p \in procs : LoopBreak(p)
    \/ \E p \in procs : LoopEnd(p)
    \/ \E p \in procs : InvalidRecord(p)
    \/ \E p \in procs : Call(p)
    \/ \E p \in procs : SkipExisting(p)
    \/ \E p \in procs : MakeDirs(p)
    \/ \E p \in procs : Sleep(p)
    \/ \E p \in procs : FetchFails(p)
    \/ \E p \in procs : ParseRaises(p)
    \/ \E p \in procs : Fetched(p)
    \/ \E p \in procs : WriteHtml(p)
    \/ \E p \in procs : WriteJson(p)
    \/ \E p \in procs : NoRecords(p)
    \/ \E p \in procs : exit_gracefully(p)
    \/ TouchTerminateNow
    \/ main_process_data

Spec == Init /\ [][Next]_vars

\* --------------------------------------------------- two instances ----
\* Two scraper processes started against the same store and the same input
\* file, which the module docstring warns against and nothing prevents.
InitRace ==
    /\ \/ /\ names_csv \in UNION { [1..n -> SearchRows] : n \in 0..RaceLen }
          /\ url_list = <<>>
       \/ /\ names_csv = <<>>
          /\ url_list \in UNION { [1..n -> UrlLines] : n \in 0..RaceLen }
    /\ procs \in {{1}, Procs}
    /\ Fresh
    /\ ParseIdle
    /\ KickIdle

\* A process that has the store to itself is run again and again; of two
\* concurrent processes each is followed through one run.
Rerun(p) == procs = {p} /\ ProcessExit(p)

\* The steps of the two loops, with no signal, no sentinel file and no
\* update run in between.
NextRace ==
    \/ \E p \in procs : main_search(p)
    \/ \E p \in procs : main_details(p)
    \/ \E p \in procs : Rerun(p)
    \/ \E p \in procs : LoopEnd(p)
    \/ \E p \in procs : InvalidRecord(p)
    \/ \E p \in procs : Call(p)
    \/ \E p \in procs : SkipExisting(p)
    \/ \E p \in procs : MakeDirs(p)
    \/ \E p \in procs : Sleep(p)
    \/ \E p \in procs : FetchFails(p)
    \/ \E p \in procs : ParseRaises(p)
    \/ \E p \in procs : Fetched(p)
    \/ \E p \in procs : WriteHtml(p)
    \/ \E p \in procs : WriteJson(p)
    \/ \E p \in procs : NoRecords(p)

SpecRace == InitRace /\ [][NextRace]_vars

\* ------------------------------------------------------- result loop ----
\* What the text of a child element of a result block says about a date:
\* the word is not there, it is there with a date, it is there without one.
Dates == {"none", "date", "nodate"}

\* A result block: whether the h4 before it holds the detail link, and its
\* 'born' and 'updated' elements.
Blocks == [link : BOOLEAN, born : Dates, updated : Dates]

\* Numbers of result blocks on a page: a few, and a few around the maximum.
PageSizes ==
    (0..MaxBlocks)
    \cup { MAX_RESULTS_ON_SEARCH_PAGE + d : d \in 0..(MaxBlocks + 1) }

Responses ==
    { [status |-> 404, blocks |-> 0] }
    \cup { [status |-> 200, blocks |-> b] : b \in PageSizes }

\* dateparser's search_dates: the list of the dates found, or None when
\* there is none.
search_dates(txt) ==
    IF txt = "date" THEN [none |-> FALSE, len |-> 1]
                    ELSE [none |-> TRUE, len |-> 0]

\* The loop body raises: find_previous_sibling('h4').find('a') without the
\* link, or len(srd) on the None of a 'born' / 'updated' text without date.
BlockRaises(b) ==
    \/ ~b.link
    \/ b.born # "none" /\ search_dates(b.born).none
    \/ b.updated # "none" /\ search_dates(b.updated).none

InitParse ==
    /\ ScraperIdle
    /\ KickIdle
    /\ resp \in Responses
    /\ enum_j = 0
    /\ block = NoBlock
    /\ results = 0
    /\ errors = {}
    /\ written = {}
    /\ ppc = "loop"

\* if page.status_code==200: is false
Not200 ==
    /\ ppc = "loop"
    /\ resp.status # 200
    /\ ppc' = "return"
    /\ UNCHANGED << svars, kvars, resp, enum_j, block, results, errors, written >>

\* if j > MAX_RESULTS_ON_SEARCH_PAGE: logging.error(...); break
TooMany ==
    /\ ppc = "loop"
    /\ resp.status = 200
    /\ enum_j < resp.blocks
    /\ enum_j > MAX_RESULTS_ON_SEARCH_PAGE
    /\ errors' = errors \cup {"too many results"}
    /\ ppc' = "return"
    /\ UNCHANGED << svars, kvars, resp, enum_j, block, results, written >>

\* The loop body on a block it can take: results.append(res)
AppendRecord ==
    /\ ppc = "loop"
    /\ resp.status = 200
    /\ enum_j < resp.blocks
    /\ ~(enum_j > MAX_RESULTS_ON_SEARCH_PAGE)
    /\ \E b \in Blocks :
         /\ ~BlockRaises(b)
         /\ block' = b
    /\ results' = results + 1
    /\ enum_j' = enum_j + 1
    /\ UNCHANGED << svars, kvars, resp, errors, written, ppc >>

\* The loop body raises; the exception leaves datadigger_by_name and
\* scrape_by_name.
BlockThrows ==
    /\ ppc = "loop"
    /\ resp.status = 200
    /\ enum_j < resp.blocks
    /\ ~(enum_j > MAX_RESULTS_ON_SEARCH_PAGE)
    /\ \E b \in Blocks :
         /\ BlockRaises(b)
         /\ block' = b
    /\ ppc' = "raised"
    /\ UNCHANGED << svars, kvars, resp, enum_j, results, errors, written >>

\* enumerate() is exhausted.
Exhausted ==
    /\ ppc = "loop"
    /\ resp.status = 200
    /\ enum_j = resp.blocks
    /\ ppc' = "return"
    /\ UNCHANGED << svars, kvars, resp, enum_j, block, results, errors, written >>

\* scrape_by_name: with open(html_name, "w") as html_io: html_io.write(html)
TaskWriteHtml ==
    /\ ppc = "return"
    /\ written' = written \cup {"html"}
    /\ ppc' = "results"
    /\ UNCHANGED << svars, kvars, resp, enum_j, block, results, errors >>

\* scrape_by_name: if len(results)>0: write the records
TaskWriteJson ==
    /\ ppc = "results"
    /\ results > 0
    /\ written' = written \cup {"json"}
    /\ ppc' = "done"
    /\ UNCHANGED << svars, kvars, resp, enum_j, block, results, errors >>

\* scrape_by_name: else: logging.warning("No records for ...")
TaskNoRecords ==
    /\ ppc = "results"
    /\ results = 0
    /\ ppc' = "done"
    /\ UNCHANGED << svars, kvars, resp, enum_j, block, results, errors, written >>

NextParse ==
    \/ Not200
    \/ TooMany
    \/ AppendRecord
    \/ BlockThrows
    \/ Exhausted
    \/ TaskWriteHtml
    \/ TaskWriteJson
    \/ TaskNoRecords

SpecParse == InitParse /\ [][NextParse]_vars

\* ------------------------------------------------------- kickstarter ----
\* scrape_kickstarter.py, scraping(sections, anyState, limit)
SectionNames == {"design", "nosuch"}

\* cat_dict.get(sect, -1) >= 0
Known(s) == s = "design"

SectionLists == UNION { [1..k -> SectionNames] : k \in 0..MaxSections }

\* stloop: [('any','')] or one entry each for 'live' and 'upcoming'
StLoop == IF any_state THEN << "any" >> ELSE << "live", "upcoming" >>

InitKick ==
    /\ ScraperIdle
    /\ ParseIdle
    /\ limit \in {0, TestLimit}
    /\ any_state \in BOOLEAN
    /\ sections \in SectionLists
    /\ sect = 1
    /\ st = 1
    /\ cards = 0
    /\ project_counter = 0
    /\ data_json = 0
    /\ scraped = 0
    /\ kpc = "section"

\* for sect in sections: ... if category_id<0: continue
UnknownCategory ==
    /\ kpc = "section"
    /\ sect <= Len(sections)
    /\ ~Known(sections[sect])
    /\ sect' = sect + 1
    /\ UNCHANGED << svars, pvars, limit, any_state, sections, st, cards,
                    project_counter, data_json, scraped, kpc >>

\* for state, state_arg in stloop: the first requests.get of the generator
StartSection ==
    /\ kpc = "section"
    /\ sect <= Len(sections)
    /\ Known(sections[sect])
    /\ st' = 1
    /\ kpc' = "get"
    /\ UNCHANGED << svars, pvars, limit, any_state, sections, sect, cards,
                    project_counter, data_json, scraped >>

\* while page.status_code == 200: yield soup, with its project cards
Page200 ==
    /\ kpc = "get"
    /\ \E c \in 0..MaxCards :
         /\ project_counter + c <= MaxProjects
         /\ cards' = c
    /\ kpc' = "cards"
    /\ UNCHANGED << svars, pvars, limit, any_state, sections, sect, st,
                    project_counter, data_json, scraped >>

\* The listing has no further page: the next entry of stloop, or the next
\* section.
PageNot200 ==
    /\ kpc = "get"
    /\ IF st < Len(StLoop)
       THEN /\ st' = st + 1
            /\ UNCHANGED << sect, kpc >>
       ELSE /\ sect' = sect + 1
            /\ kpc' = "section"
            /\ UNCHANGED st
    /\ UNCHANGED << svars, pvars, limit, any_state, sections, cards,
                    project_counter, data_json, scraped >>

\* The body of `for k, p in enumerate(projects)`: count the card, write
\* <category>/<pid>/data.json (a new file, or the file of a project seen
\* before), and only then compare the counter with the limit.
Download ==
    /\ kpc = "cards"
    /\ cards > 0
    /\ project_counter' = project_counter + 1
    /\ \E fresh \in BOOLEAN :
         /\ fresh \/ (data_json > 0 /\ project_counter - data_json < MaxDups)
         /\ data_json' = IF fresh THEN data_json + 1 ELSE data_json
    /\ IF limit > 0 /\ project_counter' > limit
       THEN /\ scraped' = project_counter'
            /\ kpc' = "returned"
            /\ cards' = 0
       ELSE /\ cards' = cards - 1
            /\ UNCHANGED << scraped, kpc >>
    /\ UNCHANGED << svars, pvars, limit, any_state, sections, sect, st >>

\* assert res==0, "Failed to create ..."
MkdirFails ==
    /\ kpc = "cards"
    /\ cards > 0
    /\ project_counter' = project_counter + 1
    /\ kpc' = "raised"
    /\ cards' = 0
    /\ UNCHANGED << svars, pvars, limit, any_state, sections, sect, st,
                    data_json, scraped >>

\* The cards of the page are done: the generator sleeps and requests the
\* next page.
PageDone ==
    /\ kpc = "cards"
    /\ cards = 0
    /\ kpc' = "get"
    /\ UNCHANGED << svars, pvars, limit, any_state, sections, sect, st, cards,
                    project_counter, data_json, scraped >>

\* return project_counter, after the last section
Finish ==
    /\ kpc = "section"
    /\ sect > Len(sections)
    /\ scraped' = project_counter
    /\ kpc' = "returned"
    /\ UNCHANGED << svars, pvars, limit, any_state, sections, sect, st, cards,
                    project_counter, data_json >>

NextKick ==
    \/ UnknownCategory
    \/ StartSection
    \/ Page200
    \/ PageNot200
    \/ Download
    \/ MkdirFails
    \/ PageDone
    \/ Finish

SpecKick == InitKick /\ [][NextKick]_vars

\* ============================================================ claims ====
Stored == {"mkdir", "write_html", "write_json"}

AtLoop == {"head", "finished"}

\* The latest index this run handed to the task runner
LastCalled(p) == CHOOSE i \in attempted[p] : \A j \in attempted[p] : j <= i

LastKey(p) == KeyOf(mode[p], input[p][LastCalled(p)])

\* C1: a task runner call that finds the raw-HTML artifact of its key
\* sleeps for nothing, requests nothing and creates or writes no file or
\* directory, with or without the JSON artifact next to it.
C1_CheckpointGate ==
    \A p \in procs : entry[p].html => effects[p] = {}

\* A call found the HTML artifact without the JSON artifact and has returned.
C1_Witness ==
    \E p \in procs : pc[p] = "head" /\ entry[p].html /\ ~entry[p].json

\* C2 as stated: whatever the outcome of the earlier call for a task, a
\* later call for the same task requests nothing and changes nothing on disk.
C2_AnyOutcome ==
    \A p \in procs :
        entry[p].again # "first" => effects[p] \cap (Stored \cup {"get"}) = {}

\* C2 amended: when the earlier call for a task returned (a 200 with or
\* without records, or another status), a later call for the same task
\* requests nothing and changes nothing on disk.
C2_AfterReturn ==
    \A p \in procs :
        entry[p].again = "returned" => effects[p] \cap (Stored \cup {"get"}) = {}

\* A second call for a task whose first call returned has itself returned.
C2_Witness ==
    \E p \in procs :
        pc[p] = "head" /\ entry[p].again = "returned" /\ effects[p] = {}

\* C3: no raw-HTML artifact holds the body of a response whose status is
\* not 200.
C3_Only200Stored ==
    \A k \in DOMAIN html : html[k].status = 200

\* After a parse exception the loop has caught and logged it and the task's
\* key has neither artifact.
ParseFailureContained ==
    \A p \in procs :
        "parse_raised" \in effects[p] =>
            /\ pc[p] \in AtLoop
            /\ <<"error", "parse", LastCalled(p)>> \in log[p]
            /\ LastKey(p) \notin DOMAIN html
            /\ LastKey(p) \notin DOMAIN json
            /\ effects[p] \cap Stored \subseteq {"mkdir"}

\* C4 as stated: a parse exception is caught and logged and leaves no
\* artifact, and the next run over the same input that gets to the task
\* fetches it again.
C4_RetryAlways ==
    /\ ParseFailureContained
    /\ \A p \in procs :
         (pc[p] \in AtLoop /\ entry[p].retry) => "get" \in effects[p]

\* C4 amended: a parse exception is caught and logged and leaves no
\* artifact, and the next run over the same input that gets to the task
\* fetches it again unless another list item with the same key has stored
\* the HTML artifact since.
C4_RetryUnlessSuperseded ==
    /\ ParseFailureContained
    /\ \A p \in procs :
         (pc[p] \in AtLoop /\ entry[p].open) => "get" \in effects[p]

\* A task whose parse raised in an earlier run has been fetched again.
C4_Witness ==
    \E p \in procs : pc[p] = "head" /\ entry[p].open /\ "get" \in effects[p]

\* C5: when a batch ends without the termination flag, every valid item
\* after one whose task raised has been handed to the task runner, and the
\* loop has walked the whole list.
C5_FailureContained ==
    \A p \in procs :
        (pc[p] = "finished" /\ ~terminate_now[p]) =>
            \A i \in 1..Len(input[p]) :
                (\E kind \in {"network", "parse"} : <<"error", kind, i>> \in log[p])
                => /\ idx[p] > Len(input[p])
                   /\ \A j \in (i + 1)..Len(input[p]) :
                        Valid(mode[p], input[p][j]) => j \in attempted[p]

\* A batch has ended in which the first task raised and the last was run.
C5_Witness ==
    \E p \in procs :
        /\ pc[p] = "finished" /\ ~terminate_now[p]
        /\ Len(input[p]) > 1
        /\ \E kind \in {"network", "parse"} : <<"error", kind, 1>> \in log[p]
        /\ Len(input[p]) \in attempted[p]

\* C6: a signal sets the flag for the rest of the process; with the flag
\* set no item beyond the one in hand at the signal is handed to the task
\* runner, and the task in flight at the signal ends with what it fetched
\* on disk.
C6_Termination ==
    \A p \in procs :
        /\ sig[p].seen => terminate_now[p]
        /\ terminate_now[p] =>
             /\ \A i \in attempted[p] : i <= sig[p].idx
             /\ pc[p] \in InTask => idx[p] = sig[p].idx
             /\ (/\ pc[p] \in AtLoop
                 /\ "get" \in effects[p]
                 /\ effects[p] \cap {"network_raised", "parse_raised"} = {})
                => /\ LastKey(p) \in DOMAIN html
                   /\ html[LastKey(p)] = page[p]
                   /\ Parse(mode[p], page[p]).n > 0
                      => /\ LastKey(p) \in DOMAIN json
                         /\ json[LastKey(p)] = Parse(mode[p], page[p]).n

\* A signal came while a request was under way; the task wrote both
\* artifacts and the loop ended with an item of the list left.
C6_Witness ==
    \E p \in procs :
        /\ pc[p] = "finished"
        /\ sig[p].seen /\ sig[p].pc = "fetch"
        /\ "write_json" \in effects[p]
        /\ sig[p].idx < Len(input[p])

\* C7: no task of the name-search loop is started while TERMINATE.NOW is
\* there.
C7_KillSwitch ==
    \A p \in procs : (mode[p] = "search" /\ pc[p] \in InTask) => ~entry[p].kill

\* C8: with no task runner call under way, a key has its HTML artifact
\* exactly when it has its JSON artifact.
C8_ArtifactPair ==
    (\A p \in procs : pc[p] \notin InTask)
    => \A k \in DOMAIN html \cup DOMAIN json :
           k \in DOMAIN html /\ k \in DOMAIN json

\* C9: every artifact on disk has been opened for writing once, and every
\* artifact ever opened for writing is on disk.
C9_WriteOnce ==
    /\ DOMAIN opens = { <<k, "html">> : k \in DOMAIN html }
                        \cup { <<k, "json">> : k \in DOMAIN json }
    /\ \A f \in DOMAIN opens : opens[f] = 1

\* A task that had never run found the HTML artifact a colliding task wrote.
C9_Witness ==
    \E p \in procs :
        /\ pc[p] = "head" /\ entry[p].html /\ entry[p].again = "first"
        /\ <<LastKey(p), "html">> \in DOMAIN opens

SearchJson == { k \in DOMAIN json : k.store = "search" }

\* C10: load_search_results ends without an error, with one row for every
\* line of the JSON artifacts of the search store and the number of those
\* artifacts as number_of_files.
C10_Aggregation ==
    table.loaded =>
        /\ ~table.error
        /\ table.rows = Lines(SearchJson)
        /\ table.number_of_files = Cardinality(SearchJson)

\* C11: an artifact is opened for writing at most once by each process
\* that shares the store, so never twice by a process that has the store to
\* itself, and a call that finds the HTML artifact requests and writes
\* nothing; two processes that both find it missing both fetch and write.
C11_Race ==
    /\ \A f \in DOMAIN opens : opens[f] <= Cardinality(procs)
    /\ \A p \in procs :
         entry[p].html => effects[p] \cap {"get", "write_html", "write_json"} = {}

\* Two processes were called for the same key before either had written
\* it; both requested the page and both files were opened twice.
C11_Witness ==
    /\ procs = Procs
    /\ \A p \in procs :
         /\ ~entry[p].html
         /\ {"get", "write_html", "write_json"} \subseteq effects[p]
    /\ \E k \in DOMAIN html :
         /\ <<k, "html">> \in DOMAIN opens /\ opens[<<k, "html">>] = 2
         /\ <<k, "json">> \in DOMAIN opens /\ opens[<<k, "json">>] = 2

\* C12: a run with --test (limit = 100) writes at most 100 data.json
\* files and returns a count of at most 100.
C12_TestLimit ==
    limit = TestLimit =>
        /\ data_json <= TestLimit
        /\ kpc = "returned" => scraped <= TestLimit

\* C13: the parser never holds more than MAX_RESULTS_ON_SEARCH_PAGE
\* records; over a page with more blocks than that it has logged the error
\* by the time it returns; and the records it returned are written.
C13_ResultCap ==
    /\ results <= MAX_RESULTS_ON_SEARCH_PAGE
    /\ (ppc \in {"return", "results", "done"}
          /\ resp.blocks > MAX_RESULTS_ON_SEARCH_PAGE)
       => "too many results" \in errors
    /\ (ppc = "done" /\ results > 0) => written = {"html", "json"}

\* C14: a block whose 'born' or 'updated' text holds no date does not make
\* the parser raise.
C14_SilentSkip ==
    (block.link /\ "nodate" \in {block.born, block.updated}) => ppc # "raised"

====
